---- MODULE Spec2Model ----
(***************************************************************************)
(* A model of the PCSE simulation kernel as it is used by the components   *)
(* of pcse/crop/abioticdamage.py (CrownTemperature, FROSTOL,               *)
(* CERES_WinterKill) and by the soil wrappers of                           *)
(* pcse/soil/soil_npk_water.py.  Spec is a run of the kernel over the crop *)
(* and soil components; SpecCT is CrownTemperature called on its own.      *)
(*                                                                         *)
(* Numbers.  A Python float is a fixed-point integer in thousandths        *)
(* (Scale); the coefficients FROSTOL_H, _D, _S, _R and _KILLCF are kept in *)
(* millionths.  Products and quotients round towards minus infinity.       *)
(*                                                                         *)
(* Kernel.  The variable kiosk (Registry), the States/Rates containers,    *)
(* the prepare_rates/prepare_states decorators, the signal bus, the child  *)
(* components of the soil wrappers and the driver are not among the        *)
(* source files; they are modelled from the specification document.        *)
(***************************************************************************)
EXTENDS Integers, Sequences, FiniteSets, TLC

\* Number of simulated days of a run.
MaxDay == 2

-----------------------------------------------------------------------------
(* Fixed-point arithmetic                                                  *)

Scale == 1000
Micro == Scale * Scale

Min2(a, b) == IF a < b THEN a ELSE b

\* floor(a*b/Scale), computed without overflowing 32 bits for |a| < 2e6.
Mul(a, b) == a * (b \div Scale) + (a * (b % Scale)) \div Scale

\* a/b for fixed-point a and b.
Div(a, b) == (a * Scale) \div b

\* c*v for a coefficient c in millionths and a fixed-point v.
CoefMul(c, v) == (c * (v \div Scale)) \div Scale + (c * (v % Scale)) \div Micro

\* v/c for a coefficient c in millionths and a fixed-point v.
CoefDiv(v, c) == (v * Scale) \div (c \div Scale)

\* pcse.util.limit(min, max, v)
limit(lo, hi, v) == IF v < lo THEN lo ELSE IF v < hi THEN v ELSE hi

\* math.exp: e^x = e^n * e^f with n = floor(x) and f in [0, 1); e^f by its
\* Taylor series, e^n by repeated multiplication; results saturate at ExpCap.
EMilli == 2718
ExpCap == 700000
ExpTerms == 9

RECURSIVE ExpSeries(_, _, _, _)
ExpSeries(f, term, i, acc) ==
    IF term = 0 \/ i > ExpTerms THEN acc
    ELSE ExpSeries(f, (term * f) \div (Scale * i), i + 1, acc + term)

RECURSIVE ExpInt(_, _)
ExpInt(n, v) ==
    IF n = 0 \/ v = 0 THEN v
    ELSE IF n > 0
         THEN IF v >= ExpCap THEN ExpCap
              ELSE ExpInt(n - 1, Min2((v * EMilli) \div Scale, ExpCap))
         ELSE ExpInt(n + 1, (v * Scale) \div EMilli)

Exp(x) == LET n == x \div Scale
              f == x % Scale
          IN  ExpInt(n, ExpSeries(f, Scale, 1, 0))

-----------------------------------------------------------------------------
(* State                                                                   *)

VARIABLES
    caller,   \* "engine": the driver of section 5; "harness": a caller that
              \* may leave out a calc_rates call
    plan,     \* the component classes of the run, in traversal order
    phase,    \* "boot", "rates", "states", "signals", "finished", "aborted"
    pos,      \* index in plan of the component the driver calls next
    day,      \* the simulated day
    kiosk,    \* the Registry: name -> [owner, isset, value]
    schema,   \* "strict": a container refuses an undeclared field;
              \* "lax": an assignment creates it
    fr,       \* the FROSTOL instance
    wk,       \* the CERES_WinterKill instance
    soil,     \* the soil wrapper instance and its two children
    trace,    \* child calls made by the wrapper call in progress or last made
    queue,    \* signal bus: events emitted and not yet delivered
    handled,  \* handler invocations, in order
    cropdone, \* the driver's crop_finish handler has run
    ran,      \* instances whose calc_rates completed on the current day
    last,     \* the call made last: instance, class, operation, outcome, drv
    ct        \* the CrownTemperature instance and its last call

vars == <<caller, plan, phase, pos, day, kiosk, schema, fr, wk, soil, trace,
          queue, handled, cropdone, ran, last, ct>>

-----------------------------------------------------------------------------
(* Variable kiosk (Registry), section 4.1 of the specification             *)

Names == {"RF_FROST", "HIKILLFACTOR", "ISVERNALISED", "SNOWDEPTH", "SM", "NAVAIL"}

NoOwner == 0
EnvOwner == 9

KEntry(o, b, v) == [owner |-> o, isset |-> b, value |-> v]

KPublished(k, n) == k[n].owner # NoOwner

\* publish(name, owner)
KPublish(k, n, o) ==
    IF k[n].owner = NoOwner \/ k[n].owner = o
    THEN [out |-> "ok", k |-> [k EXCEPT ![n].owner = o]]
    ELSE [out |-> "DuplicatePublisherError", k |-> k]

\* set(name, value) by owner o
KSet(k, n, o, v) ==
    IF k[n].owner = o
    THEN [out |-> "ok", k |-> [k EXCEPT ![n].isset = TRUE, ![n].value = v]]
    ELSE [out |-> "UnauthorizedWriteError", k |-> k]

\* get(name): the outcome of the read
KGet(k, n) ==
    IF ~KPublished(k, n) THEN "UnknownVariableError"
    ELSE IF ~k[n].isset THEN "NotYetAvailableError"
    ELSE "ok"

\* The kiosk as other components of the run (phenology, snow cover) left it:
\* they publish ISVERNALISED and SNOWDEPTH, or the run has no such component.
EnvKiosks ==
    { [n \in Names |->
          IF n = "ISVERNALISED" /\ v # "none"
          THEN KEntry(EnvOwner, TRUE, IF v = "yes" THEN 1 ELSE 0)
          ELSE IF n = "SNOWDEPTH" /\ sd >= 0
          THEN KEntry(EnvOwner, TRUE, sd)
          ELSE KEntry(NoOwner, FALSE, 0)]
      : v \in {"none", "no", "yes"}, sd \in {0 - 1, 10 * Scale} }

-----------------------------------------------------------------------------
(* Driver, sections 2 and 5 of the specification                           *)

Classes == {"FROSTOL", "CERES_WinterKill", "SoilPP", "SoilLP"}
Crops == {"FROSTOL", "CERES_WinterKill"}

Plans == { <<"FROSTOL">>, <<"FROSTOL", "FROSTOL">>,
           <<"CERES_WinterKill", "SoilLP">>, <<"SoilPP", "CERES_WinterKill">>,
           <<"SoilPP">>, <<"SoilLP">>, <<"SoilPP", "SoilLP">>,
           <<"CERES_WinterKill", "CERES_WinterKill">> }

HasClass(pl, c) == \E n \in 1..Len(pl) : pl[n] = c

NoDrv == [TEMP_CROWN |-> 0, TMIN_CROWN |-> 0, TMAX_CROWN |-> 0, SNOWDEPTH |-> 0]

Call(i, c, op, out, drv) ==
    [inst |-> i, cls |-> c, op |-> op, out |-> out, drv |-> drv]

NextPhase(p) == CASE p = "boot" -> "rates"
                  [] p = "rates" -> "states"
                  [] p = "states" -> "signals"
                  [] OTHER -> p

\* What the driver does after a call that ended with `out`: an error aborts
\* the run; otherwise the next component of the pass, or the next pass.
Advance(out) ==
    IF out # "ok" THEN phase' = "aborted" /\ pos' = pos
    ELSE IF pos < Len(plan) THEN phase' = phase /\ pos' = pos + 1
    ELSE phase' = NextPhase(phase) /\ pos' = 1

Current(c, ph) == phase = ph /\ pos <= Len(plan) /\ plan[pos] = c

-----------------------------------------------------------------------------
(* CrownTemperature                                                        *)

\* The default of a declared Float field.
Default == (0 - 99) * Scale

CtParDefault == [CROWNTMPA |-> Default, CROWNTMPB |-> Default, ISNOWSRC |-> 0 - 99]

NoWeather == [TMIN |-> 0, TMAX |-> 0, TEMP |-> 0, SNOWDEPTH |-> 0]

NoCrown == [TMIN_crown |-> 0, TMAX_crown |-> 0, TEMP_crown |-> 0]

NoCrownTemperature ==
    [inst |-> 0, params |-> CtParDefault, drv |-> NoWeather, out |-> "none",
     ret |-> NoCrown]

\* Parameter values a run may supply (sitedata).
CtParValues ==
    { [CROWNTMPA |-> 200, CROWNTMPB |-> 500, ISNOWSRC |-> src] : src \in {0, 1} }

\* Snow depths, in cm.
CtSnow == {0, 7500, 15 * Scale, 20 * Scale, 30 * Scale}

\* The weather of a day: TEMP is the mean of TMIN and TMAX, or a daily mean
\* measured by itself.
CtDrv ==
    { [TMIN |-> tn, TMAX |-> tn + dt, TEMP |-> (2 * tn + dt) \div 2 - off,
       SNOWDEPTH |-> sd]
      : tn \in {(0 - 10) * Scale, (0 - 3) * Scale, 0, 2 * Scale},
        dt \in {4 * Scale, 9 * Scale}, off \in {0, Scale}, sd \in CtSnow }

\* The kiosk of a run with or without a component that publishes SNOWDEPTH.
CtKiosks ==
    { [n \in Names |-> IF n = "SNOWDEPTH" /\ sd >= 0
                       THEN KEntry(EnvOwner, TRUE, sd)
                       ELSE KEntry(NoOwner, FALSE, 0)]
      : sd \in CtSnow \cup {0 - 1} }

\* CrownTemperature.initialize
CrownTemperature_init(i, sitedata) ==
    [inst |-> i, params |-> sitedata, drv |-> NoWeather, out |-> "ok",
     ret |-> NoCrown]

\* The factor on the air temperature (lines 90, 93-94).
CrownFactor(p, SD) ==
    LET RSD == Div(limit(0, 15 * Scale, SD), 15 * Scale)
    IN  p.CROWNTMPA + Mul(p.CROWNTMPB, Mul(Scale - RSD, Scale - RSD))

\* CrownTemperature.__call__: the outcome and the tuple returned.
CrownTemperature_call(c, k, drv) ==
    LET p  == c.params
        rd == IF p.ISNOWSRC = 0 THEN "ok" ELSE KGet(k, "SNOWDEPTH")
        SD == IF p.ISNOWSRC = 0 THEN drv.SNOWDEPTH ELSE k["SNOWDEPTH"].value
        TMIN_crown == Mul(drv.TMIN, CrownFactor(p, SD))
        TMAX_crown == Mul(drv.TMAX, CrownFactor(p, SD))
    IN  IF rd # "ok" THEN [c EXCEPT !.drv = drv, !.out = rd, !.ret = NoCrown]
        ELSE IF drv.TMIN < 0
        THEN [c EXCEPT !.drv = drv, !.out = "ok",
                       !.ret = [TMIN_crown |-> TMIN_crown,
                                TMAX_crown |-> TMAX_crown,
                                TEMP_crown |-> (TMIN_crown + TMAX_crown) \div 2]]
        ELSE [c EXCEPT !.drv = drv, !.out = "ok",
                       !.ret = [TMIN_crown |-> drv.TMIN,
                                TMAX_crown |-> drv.TMAX,
                                TEMP_crown |-> drv.TEMP]]

-----------------------------------------------------------------------------
(* FROSTOL                                                                 *)

FrRateNames == {"RH", "RDH_TEMP", "RDH_RESP", "RDH_TSTR", "IDFS", "RF_FROST"}

FrParDefault ==
    [IDSL |-> 0 - 99, LT50C |-> Default, FROSTOL_H |-> Default,
     FROSTOL_D |-> Default, FROSTOL_S |-> Default, FROSTOL_R |-> Default,
     FROSTOL_SDBASE |-> Default, FROSTOL_SDMAX |-> Default,
     FROSTOL_KILLCF |-> Default, ISNOWSRC |-> 0 - 99]

FrRateDefault ==
    [RH |-> Default, RDH_TEMP |-> Default, RDH_RESP |-> Default,
     RDH_TSTR |-> Default, IDFS |-> 0 - 99, RF_FROST |-> Default]

FrStateDefault == [LT50T |-> Default, LT50I |-> Default, IDFST |-> 0 - 99]

NoFrostol ==
    [inst |-> 0, params |-> FrParDefault, rates |-> FrRateDefault,
     fresh |-> {}, states |-> FrStateDefault]

\* Parameter values a run may supply (cropdata merged with sitedata).
FrParValues ==
    { [FrParDefault EXCEPT !.IDSL = idsl, !.LT50C = c, !.ISNOWSRC = src,
          !.FROSTOL_H = h, !.FROSTOL_D = 27, !.FROSTOL_S = 1900000,
          !.FROSTOL_R = 540000, !.FROSTOL_SDBASE = 0,
          !.FROSTOL_SDMAX = 12500, !.FROSTOL_KILLCF = Micro]
      : idsl \in {1, 2}, c \in {(0 - 20) * Scale, (0 - 12) * Scale},
        src \in {0, 1}, h \in {0, 9300} }
    \cup
    { [FrParDefault EXCEPT !.IDSL = idsl, !.LT50C = (0 - 20) * Scale,
          !.ISNOWSRC = 0, !.FROSTOL_H = 9300, !.FROSTOL_D = 27,
          !.FROSTOL_S = 1900000, !.FROSTOL_R = 540000, !.FROSTOL_SDBASE = 0,
          !.FROSTOL_SDMAX = 12500, !.FROSTOL_KILLCF = Micro]
      : idsl \in {0, 3} }
    \cup
    { [FrParDefault EXCEPT !.IDSL = 2, !.LT50C = 0 - 500,
          !.ISNOWSRC = 0, !.FROSTOL_H = 9300, !.FROSTOL_D = 27,
          !.FROSTOL_S = 1900000, !.FROSTOL_R = 540000, !.FROSTOL_SDBASE = 0,
          !.FROSTOL_SDMAX = 12500, !.FROSTOL_KILLCF = Micro] }

\* FROSTOL.initialize with a rates container that takes a published name over
\* from its owner.
FROSTOL_init_taking_over(f, i, pv, k) ==
    LET LT50I == (0 - 600) + CoefMul(142000, pv.LT50C)
    IN  [out |-> IF pv.IDSL < 2 THEN "ParameterError" ELSE "ok",
         fr  |-> [inst |-> i, params |-> pv, rates |-> FrRateDefault,
                  fresh |-> {},
                  states |-> [LT50T |-> LT50I, LT50I |-> LT50I, IDFST |-> 0]],
         k   |-> [k EXCEPT !["RF_FROST"].owner = i]]

\* FROSTOL.initialize starting the hardening state at LT50C.
FROSTOL_init_at_LT50C(f, i, pv, k) ==
    LET pub == KPublish(k, "RF_FROST", i)
    IN  IF pub.out # "ok"
        THEN [out |-> pub.out, fr |-> f, k |-> k]
        ELSE [out |-> IF pv.IDSL < 2 THEN "ParameterError" ELSE "ok",
              fr  |-> [inst |-> i, params |-> pv, rates |-> FrRateDefault,
                       fresh |-> {},
                       states |-> [LT50T |-> pv.LT50C, LT50I |-> pv.LT50C,
                                   IDFST |-> 0]],
              k   |-> pub.k]

\* FROSTOL.initialize accepting every IDSL from 1.
FROSTOL_init_from_one(f, i, pv, k) ==
    LET pub   == KPublish(k, "RF_FROST", i)
        LT50I == (0 - 600) + CoefMul(142000, pv.LT50C)
    IN  IF pub.out # "ok"
        THEN [out |-> pub.out, fr |-> f, k |-> k]
        ELSE [out |-> IF pv.IDSL < 1 THEN "ParameterError" ELSE "ok",
              fr  |-> [inst |-> i, params |-> pv, rates |-> FrRateDefault,
                       fresh |-> {},
                       states |-> [LT50T |-> LT50I, LT50I |-> LT50I,
                                   IDFST |-> 0]],
              k   |-> pub.k]

\* FROSTOL.initialize, as far as it got: the parameters, the rates container
\* (which publishes RF_FROST), the initial states, the check on IDSL.
FROSTOL_init(f, i, pv, k) ==
    LET pub   == KPublish(k, "RF_FROST", i)
        LT50I == (0 - 600) + CoefMul(142000, pv.LT50C)
    IN  IF pub.out # "ok"
        THEN [out |-> pub.out, fr |-> f, k |-> k]
        ELSE [out |-> IF pv.IDSL < 2 THEN "ParameterError" ELSE "ok",
              fr  |-> [inst |-> i, params |-> pv, rates |-> FrRateDefault,
                       fresh |-> {},
                       states |-> [LT50T |-> LT50I, LT50I |-> LT50I,
                                   IDFST |-> 0]],
              k   |-> pub.k]

FROSTOL_initialize ==
    /\ Current("FROSTOL", "boot")
    /\ \E pv \in FrParValues :
         LET r == FROSTOL_init(fr, pos, pv, kiosk)
         IN  /\ fr' = r.fr
             /\ kiosk' = r.k
             /\ last' = Call(pos, "FROSTOL", "initialize", r.out, NoDrv)
             /\ Advance(r.out)
    /\ UNCHANGED <<ct, caller, plan, day, schema, wk, soil, trace, queue, handled,
                   cropdone, ran>>

\* Driving variables of a day as FROSTOL reads them.
FrDrv ==
    { [NoDrv EXCEPT !.TEMP_CROWN = t[1], !.TMIN_CROWN = t[2], !.SNOWDEPTH = sd]
      : t \in ({5 * Scale} \X {(0 - 25) * Scale, 0 - 6384, 0 - 510, 2 * Scale})
              \cup {<<(0 - 6) * Scale, (0 - 25) * Scale>>,
                    <<12 * Scale, 2 * Scale>>},
        sd \in {0, 10 * Scale} }

\* Hardening that sets in below 0 degrees only.
Hardening_below_zero(p, s, isVernalized, TEMP_CROWN) ==
    IF ~isVernalized /\ TEMP_CROWN < 0
    THEN CoefMul(p.FROSTOL_H, Mul(10 * Scale, s.LT50T - p.LT50C))
    ELSE 0

\* Rate of hardening (lines 257-261).
Hardening(p, s, isVernalized, TEMP_CROWN) ==
    IF ~isVernalized /\ TEMP_CROWN < 10 * Scale
    THEN LET xTC == limit(0, 10 * Scale, TEMP_CROWN)
         IN  CoefMul(p.FROSTOL_H, Mul(10 * Scale - xTC, s.LT50T - p.LT50C))
    ELSE 0

\* Rate of dehardening due to temperature (lines 264-269).
Dehardening(p, s, isVernalized, TEMP_CROWN) ==
    LET TCcrit == IF ~isVernalized THEN 10 * Scale ELSE (0 - 4) * Scale
        t      == TEMP_CROWN + 4 * Scale
    IN  IF TEMP_CROWN > TCcrit
        THEN CoefMul(p.FROSTOL_D, Mul(s.LT50I - s.LT50T, Mul(Mul(t, t), t)))
        ELSE 0

\* Stress due to respiration under snow coverage (lines 272-277).
RespStress(p, snow_depth, TEMP_CROWN) ==
    LET xTC   == IF TEMP_CROWN > 0 - 2500 THEN TEMP_CROWN ELSE 0 - 2500
        Resp  == Div(Exp(840 + CoefMul(51000, xTC)) - 2 * Scale, 1850)
        Fsnow == limit(0, Scale,
                       Div(snow_depth - p.FROSTOL_SDBASE,
                           p.FROSTOL_SDMAX - p.FROSTOL_SDBASE))
    IN  Mul(CoefMul(p.FROSTOL_R, Resp), Fsnow)

\* Stress due to low temperatures (lines 280-281); d/exp(-S*d - 3.74) is
\* computed as d*exp(S*d + 3.74).
TempStress(p, s, TEMP_CROWN) ==
    LET d == s.LT50T - TEMP_CROWN
    IN  Mul(d, Exp(CoefMul(p.FROSTOL_S, d) + 3740))

\* The logistic kill factor before the limits are applied (line 287).
Logistic(p, s, TMIN_CROWN) ==
    Micro \div (Scale + Exp(CoefDiv(TMIN_CROWN - s.LT50T, p.FROSTOL_KILLCF)))

\* The limits applied to the kill factor (lines 288-291).
KillLow == 50
KillHigh == 950

\* The limits with the two thresholds included.
SnapKillFactor_inclusive(killfactor) ==
    IF killfactor <= KillLow THEN 0
    ELSE IF killfactor >= KillHigh THEN Scale
    ELSE killfactor

SnapKillFactor(killfactor) ==
    IF killfactor < KillLow THEN 0
    ELSE IF killfactor > KillHigh THEN Scale
    ELSE killfactor

\* Frost stress reported on every day.
FrostStress_always(killfactor) == IF killfactor >= 0 THEN 1 ELSE 0

\* Frost stress occurring yes/no (line 294).
FrostStress(killfactor) == IF killfactor > 0 THEN 1 ELSE 0

\* The registry reads of FROSTOL.calc_rates (lines 243-257): a missing
\* ISVERNALISED is caught and leaves isVernalized unbound, which ends the
\* call where it is first used; a failed read of SNOWDEPTH ends the call.
FrReads(f, k) ==
    LET snowErr == IF f.params.ISNOWSRC = 0 THEN "ok" ELSE KGet(k, "SNOWDEPTH")
    IN  IF snowErr # "ok" THEN snowErr
        ELSE IF KGet(k, "ISVERNALISED") # "ok" THEN "UnboundLocalError"
        ELSE "ok"

\* The six rates FROSTOL.calc_rates assigns (lines 256-297).
FrRates(f, k, drv) ==
    LET p == f.params
        s == f.states
        isVernalized == k["ISVERNALISED"].value = 1
        snow_depth == IF p.ISNOWSRC = 0 THEN drv.SNOWDEPTH
                      ELSE k["SNOWDEPTH"].value
        killfactor == SnapKillFactor(Logistic(p, s, drv.TMIN_CROWN))
    IN  [RH       |-> Hardening(p, s, isVernalized, drv.TEMP_CROWN),
         RDH_TEMP |-> Dehardening(p, s, isVernalized, drv.TEMP_CROWN),
         RDH_RESP |-> RespStress(p, snow_depth, drv.TEMP_CROWN),
         RDH_TSTR |-> TempStress(p, s, drv.TEMP_CROWN),
         IDFS     |-> FrostStress(killfactor),
         RF_FROST |-> killfactor]

\* FROSTOL.calc_rates counting the day of frost stress itself.
FROSTOL_rates_counting(f, k, drv) ==
    LET r == FrRates(f, k, drv)
    IN  IF FrReads(f, k) # "ok" THEN [out |-> FrReads(f, k), fr |-> f, k |-> k]
        ELSE [out |-> "ok",
              fr  |-> [f EXCEPT !.rates = r, !.fresh = FrRateNames,
                                !.states.IDFST = @ + r.IDFS],
              k   |-> KSet(k, "RF_FROST", f.inst, r.RF_FROST).k]

\* FROSTOL.calc_rates with a rates container that keeps RF_FROST to itself.
FROSTOL_rates_unpublished(f, k, drv) ==
    IF FrReads(f, k) # "ok" THEN [out |-> FrReads(f, k), fr |-> f, k |-> k]
    ELSE [out |-> "ok",
          fr  |-> [f EXCEPT !.rates = FrRates(f, k, drv), !.fresh = FrRateNames],
          k   |-> k]

\* The body of FROSTOL.calc_rates: the outcome of the call, the component
\* and the kiosk after it.
FROSTOL_rates(f, k, drv) ==
    LET r == FrRates(f, k, drv)
    IN  IF FrReads(f, k) # "ok" THEN [out |-> FrReads(f, k), fr |-> f, k |-> k]
        ELSE [out |-> "ok",
              fr  |-> [f EXCEPT !.rates = r, !.fresh = FrRateNames],
              k   |-> KSet(k, "RF_FROST", f.inst, r.RF_FROST).k]

FROSTOL_calc_rates ==
    /\ Current("FROSTOL", "rates")
    /\ ~cropdone
    /\ \E drv \in FrDrv :
         LET r == FROSTOL_rates(fr, kiosk, drv)
         IN  /\ fr' = r.fr
             /\ kiosk' = r.k
             /\ ran' = IF r.out = "ok" THEN ran \cup {pos} ELSE ran
             /\ last' = Call(pos, "FROSTOL", "calc_rates", r.out, drv)
             /\ Advance(r.out)
    /\ UNCHANGED <<ct, caller, plan, day, schema, wk, soil, trace, queue, handled,
                   cropdone>>

\* FROSTOL.integrate without prepare_states: the rates are used as they are.
FROSTOL_states_unguarded(f) ==
    LET states == f.states
        rates  == f.rates
        LT50T  == states.LT50T - rates.RH
                    + (rates.RDH_TEMP + rates.RDH_RESP + rates.RDH_TSTR)
    IN  [out |-> "ok",
         fr  |-> [f EXCEPT !.states.LT50T = limit(f.params.LT50C, states.LT50I, LT50T),
                           !.states.IDFST = @ + rates.IDFS]]

\* The body of FROSTOL.integrate under prepare_states: a rate that was not
\* computed since the last integrate is not ready; the rates are spent when
\* the call returns.
FROSTOL_states(f) ==
    LET states == f.states
        rates  == f.rates
        params == f.params
        LT50T  == states.LT50T - rates.RH
                    + (rates.RDH_TEMP + rates.RDH_RESP + rates.RDH_TSTR)
        hard   == [states EXCEPT !.LT50T = limit(params.LT50C, states.LT50I, LT50T)]
    IN  IF ~({"RH", "RDH_TEMP", "RDH_RESP", "RDH_TSTR"} \subseteq f.fresh)
        THEN [out |-> "RatesNotReadyError", fr |-> f]
        ELSE IF "IDFS" \notin f.fresh
        THEN [out |-> "RatesNotReadyError", fr |-> [f EXCEPT !.states = hard]]
        ELSE [out |-> "ok",
              fr  |-> [f EXCEPT !.states = [hard EXCEPT !.IDFST = @ + rates.IDFS],
                                !.fresh = {}]]

FROSTOL_integrate ==
    /\ Current("FROSTOL", "states")
    /\ ~cropdone
    /\ LET r == FROSTOL_states(fr)
       IN  /\ fr' = r.fr
           /\ last' = Call(pos, "FROSTOL", "integrate", r.out, NoDrv)
           /\ Advance(r.out)
    /\ UNCHANGED <<ct, caller, plan, day, kiosk, schema, wk, soil, trace, queue,
                   handled, cropdone, ran>>

-----------------------------------------------------------------------------
(* Signal bus, section 4.5 of the specification                            *)

\* emit(signal_name, **payload): the event is queued.
Emit(q, sig, i, d, finish) ==
    Append(q, [signal |-> sig, from |-> i, day |-> d, finish |-> finish])

\* One handler invocation: the driver's handler of the event.
Handling(e, d, ph) == [event |-> e, day |-> d, phase |-> ph]

RECURSIVE Handle(_, _, _)
Handle(q, d, ph) ==
    IF q = <<>> THEN <<>>
    ELSE <<Handling(Head(q), d, ph)>> \o Handle(Tail(q), d, ph)

-----------------------------------------------------------------------------
(* CERES_WinterKill                                                        *)

WkParNames == {"CWWK_HC_S1", "CWWK_HC_S2", "CWWK_DHC", "CWWK_KILLTEMP"}
WkRateNames == {"HARDINDEX_INCR", "HARDINDEX_DECR", "HIKILLFACTOR"}
DrvNames == {"TEMP_CROWN", "TMIN_CROWN", "TMAX_CROWN", "SNOWDEPTH"}

WkParDefault == [n \in WkParNames |-> Default]
WkRateDefault == [n \in WkRateNames |-> Default]
WkStateDefault == [HARDINDEX |-> Default, HIKILLTEMP |-> Default]

NoWinterKill ==
    [inst |-> 0, params |-> WkParDefault, rates |-> WkRateDefault,
     fresh |-> {}, extra |-> {}, states |-> WkStateDefault]

WkParValues ==
    { [WkParDefault EXCEPT !["CWWK_HC_S1"] = 100, !["CWWK_HC_S2"] = 83,
          !["CWWK_DHC"] = 20, !["CWWK_KILLTEMP"] = kt]
      : kt \in {(0 - 6) * Scale} }

WkDrv ==
    { [NoDrv EXCEPT !.TEMP_CROWN = tc, !.TMAX_CROWN = tx, !.TMIN_CROWN = tn]
      : tc \in {(0 - 5) * Scale, 3 * Scale, 9 * Scale},
        tx \in {5 * Scale, 15 * Scale},
        tn \in {(0 - 20) * Scale, (0 - 6) * Scale, 0} }

\* CERES_WinterKill.initialize
CERES_init(w, i, pv, k) ==
    LET pub == KPublish(k, "HIKILLFACTOR", i)
    IN  IF pub.out # "ok"
        THEN [out |-> pub.out, wk |-> w, k |-> k]
        ELSE [out |-> "ok",
              wk  |-> [inst |-> i, params |-> pv, rates |-> WkRateDefault,
                       fresh |-> {}, extra |-> {},
                       states |-> [HARDINDEX |-> 0,
                                   HIKILLTEMP |-> pv["CWWK_KILLTEMP"]]],
              k   |-> pub.k]

CERES_initialize ==
    /\ Current("CERES_WinterKill", "boot")
    /\ \E pv \in WkParValues :
         LET r == CERES_init(wk, pos, pv, kiosk)
         IN  /\ wk' = r.wk
             /\ kiosk' = r.k
             /\ last' = Call(pos, "CERES_WinterKill", "initialize", r.out, NoDrv)
             /\ Advance(r.out)
    /\ UNCHANGED <<ct, caller, plan, day, schema, fr, soil, trace, queue, handled,
                   cropdone, ran>>

\* A step of calc_rates: the call so far (outcome, component, kiosk, events).
\* Reading an attribute that the object does not have ends the call.
ParamRead(p, name) == IF name \in DOMAIN p THEN "ok" ELSE "AttributeError"
DrvRead(drv, name) == IF name \in DOMAIN drv THEN "ok" ELSE "AttributeError"

\* rates.<name> = v: a declared rate is stored (and pushed to the kiosk when
\* published); an undeclared one is refused or created, by the schema.
RateWrite(a, sch, name, v) ==
    IF name \in WkRateNames
    THEN [a EXCEPT !.wk.rates[name] = v, !.wk.fresh = @ \cup {name},
                   !.k = IF name = "HIKILLFACTOR"
                         THEN KSet(a.k, name, a.wk.inst, v).k ELSE a.k]
    ELSE IF sch = "strict" THEN [a EXCEPT !.out = "AttributeError"]
    ELSE [a EXCEPT !.wk.extra = {e \in @ : e[1] # name} \cup {<<name, v>>}]

\* Hardening (lines 357-371).
WkHardening(a, sch, drv) ==
    LET states == a.wk.states
        params == a.wk.params
    IN  IF states.HARDINDEX >= Scale
        THEN IF drv.TEMP_CROWN < 0
             THEN IF ParamRead(params, "CERESWK_HC_S2") # "ok"
                  THEN [a EXCEPT !.out = "AttributeError"]
                  ELSE RateWrite(a, sch, "HARDINDEX_INCR", params["CERESWK_HC_S2"])
             ELSE RateWrite(a, sch, "HARDINDEX_INCR", 0)
        ELSE IF drv.TEMP_CROWN > 0 - Scale /\ drv.TEMP_CROWN < 8 * Scale
             THEN IF ParamRead(params, "CERESWK_HC_S1") # "ok"
                  THEN [a EXCEPT !.out = "AttributeError"]
                  ELSE RateWrite(a, sch, "HARDINDEX_INCR",
                           params["CERESWK_HC_S1"]
                             - Div(Mul(3500 - drv.TEMP_CROWN, 3500 - drv.TEMP_CROWN),
                                   506 * Scale))
             ELSE RateWrite(a, sch, "HARDINDEX_INCR", 0)

\* Dehardening that reads the coefficient under its declared name CWWK_DHC.
WkDehardening_declared(a, sch, drv) ==
    IF drv.TMAX_CROWN > 10 * Scale
    THEN RateWrite(a, sch, "HARDINDEX_DECR",
                   Mul(10 * Scale - drv.TMAX_CROWN, a.wk.params["CWWK_DHC"]))
    ELSE RateWrite(a, sch, "HARDINDEX_DECR", 0)

\* Dehardening (lines 373-378).
WkDehardening(a, sch, drv) ==
    LET params == a.wk.params
    IN  IF drv.TMAX_CROWN > 10 * Scale
        THEN IF ParamRead(params, "CERESWK_DHC") # "ok"
             THEN [a EXCEPT !.out = "AttributeError"]
             ELSE RateWrite(a, sch, "HARDINDEX_DECR",
                            Mul(10 * Scale - drv.TMAX_CROWN, params["CERESWK_DHC"]))
        ELSE RateWrite(a, sch, "HARDINDEX_DECR", 0)

\* The killing factor, with a frost kill that resets the hardening index on
\* the spot.
WkKill_resetting(a, sch, drv, snow_depth, d) ==
    LET states == a.wk.states
        params == a.wk.params
    IN  IF drv.TMIN_CROWN < states.HIKILLTEMP
        THEN LET w == RateWrite(a, sch, "KILLFACTOR", Scale)
             IN  IF w.out # "ok" THEN w
                 ELSE [w EXCEPT !.wk.states.HARDINDEX = 0 - Scale,
                                !.q = Emit(@, "crop_finish", a.wk.inst, d,
                                           "frost kill")]
        ELSE IF drv.TMIN_CROWN > params["CWWK_KILLTEMP"]
        THEN RateWrite(a, sch, "KILLFACTOR", 0)
        ELSE [a EXCEPT !.out = "AttributeError"]

\* The killing factor (lines 380-393).
WkKill(a, sch, drv, snow_depth, d) ==
    LET states == a.wk.states
        params == a.wk.params
    IN  IF drv.TMIN_CROWN < states.HIKILLTEMP
        THEN LET w == RateWrite(a, sch, "KILLFACTOR", Scale)
             IN  IF w.out # "ok" THEN w
                 ELSE [w EXCEPT !.q = Emit(@, "crop_finish", a.wk.inst, d,
                                           "frost kill")]
        ELSE IF drv.TMIN_CROWN > params["CWWK_KILLTEMP"]
        THEN RateWrite(a, sch, "KILLFACTOR", 0)
        ELSE IF DrvRead(drv, "TMINCROWN") # "ok"
        THEN [a EXCEPT !.out = "AttributeError"]
        ELSE LET KF == Mul(Mul(20, states.HARDINDEX) - 100,
                           Mul(drv["TMINCROWN"], 850) + Mul(drv.TMAX_CROWN, 150)
                             + 10 * Scale + Mul(250, snow_depth))
             IN  RateWrite(a, sch, "KILLFACTOR", limit(0, 960, KF))

\* The body of CERES_WinterKill.calc_rates.
CERES_rates(w, k, q, sch, drv, d) ==
    LET a0 == [out |-> KGet(k, "SNOWDEPTH"), wk |-> w, k |-> k, q |-> q]
        a1 == IF a0.out # "ok" THEN a0 ELSE WkHardening(a0, sch, drv)
        a2 == IF a1.out # "ok" THEN a1 ELSE WkDehardening(a1, sch, drv)
    IN  IF a2.out # "ok" THEN a2
        ELSE WkKill(a2, sch, drv, k["SNOWDEPTH"].value, d)

CERES_calc_rates ==
    /\ Current("CERES_WinterKill", "rates")
    /\ ~cropdone
    /\ \E drv \in WkDrv :
         LET r == CERES_rates(wk, kiosk, queue, schema, drv, day)
         IN  /\ wk' = r.wk
             /\ kiosk' = r.k
             /\ queue' = r.q
             /\ ran' = IF r.out = "ok" THEN ran \cup {pos} ELSE ran
             /\ last' = Call(pos, "CERES_WinterKill", "calc_rates", r.out, drv)
             /\ Advance(r.out)
    /\ UNCHANGED <<ct, caller, plan, day, schema, fr, soil, trace, handled, cropdone>>

\* CERES_WinterKill.integrate with HIKILLTEMP = HARDINDEX * CWWK_KILLTEMP.
CERES_states_without_offset(w) ==
    LET HARDINDEX == w.states.HARDINDEX
                       + (w.rates.HARDINDEX_INCR + w.rates.HARDINDEX_DECR)
    IN  IF ~({"HARDINDEX_INCR", "HARDINDEX_DECR"} \subseteq w.fresh)
        THEN [out |-> "RatesNotReadyError", wk |-> w]
        ELSE [out |-> "ok",
              wk  |-> [w EXCEPT
                         !.states = [HARDINDEX |-> HARDINDEX,
                                     HIKILLTEMP |->
                                        Mul(HARDINDEX,
                                            w.params["CWWK_KILLTEMP"])],
                         !.fresh = {}]]

\* CERES_WinterKill.integrate putting the rates back to their defaults once
\* they are applied.
CERES_states_resetting(w) ==
    LET HARDINDEX == w.states.HARDINDEX
                       + (w.rates.HARDINDEX_INCR + w.rates.HARDINDEX_DECR)
    IN  IF ~({"HARDINDEX_INCR", "HARDINDEX_DECR"} \subseteq w.fresh)
        THEN [out |-> "RatesNotReadyError", wk |-> w]
        ELSE [out |-> "ok",
              wk  |-> [w EXCEPT
                         !.states = [HARDINDEX |-> HARDINDEX,
                                     HIKILLTEMP |->
                                        Mul(HARDINDEX + Scale,
                                            w.params["CWWK_KILLTEMP"])],
                         !.rates = WkRateDefault,
                         !.fresh = {}]]

\* The body of CERES_WinterKill.integrate under prepare_states.
CERES_states(w) ==
    LET states == w.states
        rates  == w.rates
        params == w.params
        HARDINDEX == states.HARDINDEX
                       + (rates.HARDINDEX_INCR + rates.HARDINDEX_DECR)
    IN  IF ~({"HARDINDEX_INCR", "HARDINDEX_DECR"} \subseteq w.fresh)
        THEN [out |-> "RatesNotReadyError", wk |-> w]
        ELSE [out |-> "ok",
              wk  |-> [w EXCEPT
                         !.states = [HARDINDEX |-> HARDINDEX,
                                     HIKILLTEMP |->
                                        Mul(HARDINDEX + Scale,
                                            params["CWWK_KILLTEMP"])],
                         !.fresh = {}]]

CERES_integrate ==
    /\ Current("CERES_WinterKill", "states")
    /\ ~cropdone
    /\ LET r == CERES_states(wk)
       IN  /\ wk' = r.wk
           /\ last' = Call(pos, "CERES_WinterKill", "integrate", r.out, NoDrv)
           /\ Advance(r.out)
    /\ UNCHANGED <<ct, caller, plan, day, kiosk, schema, fr, soil, trace, queue,
                   handled, cropdone, ran>>

-----------------------------------------------------------------------------
(* Soil wrappers                                                           *)

\* A child component of a wrapper (a water balance or an NPK balance): one
\* published state that integrate advances, and the readiness of its rates.
NoChild == [owner |-> NoOwner, state |-> 0, ready |-> FALSE]

NoSoil == [inst |-> 0, kind |-> "none", wb |-> NoChild, npk |-> NoChild]

ChildId(i, n) == 10 * i + n

\* Construction of a child: it publishes its state and sets its initial value.
Child_init(o, name, k) ==
    LET pub == KPublish(k, name, o)
    IN  IF pub.out # "ok" THEN [out |-> pub.out, ch |-> NoChild, k |-> k]
        ELSE [out |-> "ok",
              ch  |-> [owner |-> o, state |-> 0, ready |-> FALSE],
              k   |-> KSet(pub.k, name, o, 0).k]

\* calc_rates of a child; `fail`: the day's driving variables lack a field.
Child_calc_rates(ch, fail) ==
    IF fail THEN [out |-> "DrivingVariableError", ch |-> ch]
    ELSE [out |-> "ok", ch |-> [ch EXCEPT !.ready = TRUE]]

\* integrate of a child; `fail`: the call ends with an error of its own.
Child_integrate(ch, name, k, fail) ==
    IF ~ch.ready THEN [out |-> "RatesNotReadyError", ch |-> ch, k |-> k]
    ELSE IF fail THEN [out |-> "UnknownVariableError", ch |-> ch, k |-> k]
    ELSE [out |-> "ok",
          ch  |-> [ch EXCEPT !.state = @ + 1, !.ready = FALSE],
          k   |-> KSet(k, name, ch.owner, ch.state + 1).k]

\* initialize of both wrappers: the water balance, then the NPK balance.
Soil_init(so, i, kind, k) ==
    LET a == Child_init(ChildId(i, 1), "SM", k)
        b == Child_init(ChildId(i, 2), "NAVAIL", a.k)
    IN  IF a.out # "ok" THEN [out |-> a.out, soil |-> so, k |-> k]
        ELSE IF b.out # "ok" THEN [out |-> b.out, soil |-> so, k |-> a.k]
        ELSE [out |-> "ok",
              soil |-> [inst |-> i, kind |-> kind, wb |-> a.ch, npk |-> b.ch],
              k |-> b.k]

\* SoilWaterNPKPotenialProduction.calc_rates
SoilPP_rates(so, f1, f2) ==
    LET a == Child_calc_rates(so.wb, f1)
        b == Child_calc_rates(so.npk, f2)
    IN  IF a.out # "ok"
        THEN [out |-> a.out, soil |-> so,
              trace |-> <<"WaterbalancePP.calc_rates">>]
        ELSE [out |-> b.out, soil |-> [so EXCEPT !.wb = a.ch, !.npk = b.ch],
              trace |-> <<"WaterbalancePP.calc_rates",
                          "NPK_PotentialProduction.calc_rates">>]

\* SoilWaterNPKPotenialProduction.integrate
SoilPP_states(so, k, f1, f2) ==
    LET a == Child_integrate(so.wb, "SM", k, f1)
        b == Child_integrate(so.npk, "NAVAIL", a.k, f2)
    IN  IF a.out # "ok"
        THEN [out |-> a.out, soil |-> so, k |-> k,
              trace |-> <<"WaterbalancePP.integrate">>]
        ELSE [out |-> b.out, soil |-> [so EXCEPT !.wb = a.ch, !.npk = b.ch],
              k |-> b.k,
              trace |-> <<"WaterbalancePP.integrate",
                          "NPK_PotentialProduction.integrate">>]

\* SoilWaterNPKLimitedProduction.calc_rates
SoilLP_rates(so, f1, f2) ==
    LET a == Child_calc_rates(so.wb, f1)
        b == Child_calc_rates(so.npk, f2)
    IN  IF a.out # "ok"
        THEN [out |-> a.out, soil |-> so,
              trace |-> <<"WaterbalanceFD.calc_rates">>]
        ELSE [out |-> b.out, soil |-> [so EXCEPT !.wb = a.ch, !.npk = b.ch],
              trace |-> <<"WaterbalanceFD.calc_rates",
                          "NPK_Soil_Dynamics.calc_rates">>]

\* SoilWaterNPKLimitedProduction.integrate with the two calls exchanged.
SoilLP_states_swapped(so, k, f1, f2) ==
    LET b == Child_integrate(so.npk, "NAVAIL", k, f2)
        a == Child_integrate(so.wb, "SM", b.k, f1)
    IN  IF b.out # "ok"
        THEN [out |-> b.out, soil |-> so, k |-> k,
              trace |-> <<"NPK_Soil_Dynamics.integrate">>]
        ELSE [out |-> a.out, soil |-> [so EXCEPT !.wb = a.ch, !.npk = b.ch],
              k |-> a.k,
              trace |-> <<"NPK_Soil_Dynamics.integrate",
                          "WaterbalanceFD.integrate">>]

\* SoilWaterNPKLimitedProduction.integrate
SoilLP_states(so, k, f1, f2) ==
    LET a == Child_integrate(so.wb, "SM", k, f1)
        b == Child_integrate(so.npk, "NAVAIL", a.k, f2)
    IN  IF a.out # "ok"
        THEN [out |-> a.out, soil |-> so, k |-> k,
              trace |-> <<"WaterbalanceFD.integrate">>]
        ELSE [out |-> b.out, soil |-> [so EXCEPT !.wb = a.ch, !.npk = b.ch],
              k |-> b.k,
              trace |-> <<"WaterbalanceFD.integrate",
                          "NPK_Soil_Dynamics.integrate">>]

Soil_initialize(cls, kind) ==
    /\ Current(cls, "boot")
    /\ LET r == Soil_init(soil, pos, kind, kiosk)
       IN  /\ soil' = r.soil
           /\ kiosk' = r.k
           /\ last' = Call(pos, cls, "initialize", r.out, NoDrv)
           /\ Advance(r.out)
    /\ UNCHANGED <<ct, caller, plan, day, schema, fr, wk, trace, queue, handled,
                   cropdone, ran>>

SoilPP_initialize == Soil_initialize("SoilPP", "PP")
SoilLP_initialize == Soil_initialize("SoilLP", "LP")

Soil_call(cls, op, r) ==
    /\ soil' = r.soil
    /\ trace' = r.trace
    /\ ran' = IF op = "calc_rates" /\ r.out = "ok" THEN ran \cup {pos} ELSE ran
    /\ last' = Call(pos, cls, op, r.out, NoDrv)
    /\ Advance(r.out)
    /\ UNCHANGED <<ct, caller, plan, day, schema, fr, wk, queue, handled, cropdone>>

SoilPP_calc_rates ==
    /\ Current("SoilPP", "rates")
    /\ \E f1, f2 \in BOOLEAN :
         /\ Soil_call("SoilPP", "calc_rates", SoilPP_rates(soil, f1, f2))
         /\ UNCHANGED kiosk

SoilPP_integrate ==
    /\ Current("SoilPP", "states")
    /\ \E f1, f2 \in BOOLEAN :
         LET r == SoilPP_states(soil, kiosk, f1, f2)
         IN  Soil_call("SoilPP", "integrate", r) /\ kiosk' = r.k

SoilLP_calc_rates ==
    /\ Current("SoilLP", "rates")
    /\ \E f1, f2 \in BOOLEAN :
         /\ Soil_call("SoilLP", "calc_rates", SoilLP_rates(soil, f1, f2))
         /\ UNCHANGED kiosk

SoilLP_integrate ==
    /\ Current("SoilLP", "states")
    /\ \E f1, f2 \in BOOLEAN :
         LET r == SoilLP_states(soil, kiosk, f1, f2)
         IN  Soil_call("SoilLP", "integrate", r) /\ kiosk' = r.k

-----------------------------------------------------------------------------
(* The driver's own steps                                                  *)

\* A crop component is no longer advanced once crop_finish was handled.
SkipFinishedCrop ==
    /\ phase \in {"rates", "states"}
    /\ pos <= Len(plan) /\ plan[pos] \in Crops
    /\ cropdone
    /\ last' = Call(pos, plan[pos], "skipped", "ok", NoDrv)
    /\ Advance("ok")
    /\ UNCHANGED <<ct, caller, plan, day, kiosk, schema, fr, wk, soil, trace, queue,
                   handled, cropdone, ran>>

\* A caller that does not keep the protocol leaves out a calc_rates call.
OmitCalcRates ==
    /\ caller = "harness"
    /\ phase = "rates"
    /\ pos <= Len(plan)
    /\ last' = Call(pos, plan[pos], "omitted", "ok", NoDrv)
    /\ Advance("ok")
    /\ UNCHANGED <<ct, caller, plan, day, kiosk, schema, fr, wk, soil, trace, queue,
                   handled, cropdone, ran>>

\* End of the day: every queued event is handed to its handler, once; the
\* handler of crop_finish ends the advancement of the crop components.
EndOfDay ==
    /\ phase = "signals"
    /\ handled' = handled \o Handle(queue, day, phase)
    /\ cropdone' = (cropdone \/ \E n \in 1..Len(queue) :
                                    queue[n].signal = "crop_finish")
    /\ queue' = <<>>
    /\ ran' = {}
    /\ last' = Call(0, "driver", "end_of_day", "ok", NoDrv)
    /\ IF day < MaxDay
       THEN day' = day + 1 /\ phase' = "rates"
       ELSE day' = day /\ phase' = "finished"
    /\ pos' = 1
    /\ UNCHANGED <<ct, caller, plan, kiosk, schema, fr, wk, soil, trace>>

-----------------------------------------------------------------------------
Init ==
    /\ caller \in {"engine", "harness"}
    /\ plan \in Plans
    /\ phase = "boot"
    /\ pos = 1
    /\ day = 1
    /\ kiosk \in EnvKiosks
    /\ schema \in IF HasClass(plan, "CERES_WinterKill")
                  THEN {"strict", "lax"} ELSE {"strict"}
    /\ fr = NoFrostol
    /\ wk = NoWinterKill
    /\ soil = NoSoil
    /\ trace = <<>>
    /\ queue = <<>>
    /\ handled = <<>>
    /\ cropdone = FALSE
    /\ ran = {}
    /\ last = Call(0, "driver", "start", "ok", NoDrv)
    /\ ct = NoCrownTemperature

Next ==
    \/ FROSTOL_initialize
    \/ FROSTOL_calc_rates
    \/ FROSTOL_integrate
    \/ CERES_initialize
    \/ CERES_calc_rates
    \/ CERES_integrate
    \/ SoilPP_initialize
    \/ SoilPP_calc_rates
    \/ SoilPP_integrate
    \/ SoilLP_initialize
    \/ SoilLP_calc_rates
    \/ SoilLP_integrate
    \/ SkipFinishedCrop
    \/ OmitCalcRates
    \/ EndOfDay

Spec == Init /\ [][Next]_vars

-----------------------------------------------------------------------------
(* CrownTemperature on its own: the component is built and then called with *)
(* the weather of one day after the other.                                  *)

CrownTemperature_initialize ==
    /\ ct.inst = 0
    /\ \E sitedata \in CtParValues : ct' = CrownTemperature_init(1, sitedata)
    /\ UNCHANGED <<caller, plan, phase, pos, day, kiosk, schema, fr, wk, soil,
                   trace, queue, handled, cropdone, ran, last>>

CrownTemperature_day ==
    /\ ct.inst # 0
    /\ \E drv \in CtDrv : ct' = CrownTemperature_call(ct, kiosk, drv)
    /\ UNCHANGED <<caller, plan, phase, pos, day, kiosk, schema, fr, wk, soil,
                   trace, queue, handled, cropdone, ran, last>>

InitCT ==
    /\ caller = "harness"
    /\ plan = <<>>
    /\ phase = "boot"
    /\ pos = 1
    /\ day = 1
    /\ kiosk \in CtKiosks
    /\ schema = "strict"
    /\ fr = NoFrostol
    /\ wk = NoWinterKill
    /\ soil = NoSoil
    /\ trace = <<>>
    /\ queue = <<>>
    /\ handled = <<>>
    /\ cropdone = FALSE
    /\ ran = {}
    /\ last = Call(0, "driver", "start", "ok", NoDrv)
    /\ ct = NoCrownTemperature

NextCT ==
    \/ CrownTemperature_initialize
    \/ CrownTemperature_day

SpecCT == InitCT /\ [][NextCT]_vars

-----------------------------------------------------------------------------
(* Properties                                                              *)

Wrappers == {"SoilPP", "SoilLP"}

\* The state variables of all components.
CompStates == <<fr.states, wk.states, soil.wb.state, soil.npk.state>>

\* The names published by a rates container; every other name of the kiosk
\* is a published state or a value of another component.
PublishedRates == {"RF_FROST", "HIKILLFACTOR"}

\* The child calls of a wrapper call, as declared by the wrapper.
ChildCalls(cls, op) ==
    CASE cls = "SoilPP" /\ op = "calc_rates" ->
           <<"WaterbalancePP.calc_rates", "NPK_PotentialProduction.calc_rates">>
      [] cls = "SoilPP" /\ op = "integrate" ->
           <<"WaterbalancePP.integrate", "NPK_PotentialProduction.integrate">>
      [] cls = "SoilLP" /\ op = "calc_rates" ->
           <<"WaterbalanceFD.calc_rates", "NPK_Soil_Dynamics.calc_rates">>
      [] cls = "SoilLP" /\ op = "integrate" ->
           <<"WaterbalanceFD.integrate", "NPK_Soil_Dynamics.integrate">>

\* C1: a calc_rates or integrate call of either wrapper that returns has
\* called the water balance child once and then the NPK child once, in that
\* order, on every day; a call ended by an error of the water balance child
\* made that one child call and no other.
C1_ChildCallOrder ==
    (last.cls \in Wrappers /\ last.op \in {"calc_rates", "integrate"}) =>
        LET full == ChildCalls(last.cls, last.op)
        IN  /\ last.out = "ok" => trace = full
            /\ trace = full \/ trace = <<full[1]>>

C1_Witness ==
    /\ last.cls = "SoilLP" /\ last.op = "integrate" /\ last.out = "ok"
    /\ day = 2
    /\ trace = <<"WaterbalanceFD.integrate", "NPK_Soil_Dynamics.integrate">>

\* C2: an integrate call on a component whose calc_rates has not run on that
\* day ends with RatesNotReadyError and changes no state variable and no
\* kiosk entry; and when the engine makes the calls, every integrate call is
\* made on a component whose calc_rates has completed on the same day.
C2_RatesNotReady ==
    /\ [][(last'.op = "integrate" /\ last'.inst \notin ran) =>
            /\ last'.out = "RatesNotReadyError"
            /\ CompStates' = CompStates
            /\ kiosk' = kiosk]_vars
    /\ []((caller = "engine" /\ last.op = "integrate") => last.inst \in ran)

C2_Witness ==
    /\ caller = "harness"
    /\ last.cls = "FROSTOL" /\ last.op = "integrate"
    /\ last.out = "RatesNotReadyError"
    /\ day = 2
    /\ fr.states.LT50T < fr.states.LT50I

\* C3: a calc_rates call of any component leaves every state variable as it
\* was, and every kiosk entry other than the rates it publishes.
C3_CalcRatesFrame ==
    [][last'.op = "calc_rates" =>
         /\ CompStates' = CompStates
         /\ \A n \in Names \ PublishedRates : kiosk'[n] = kiosk[n]]_vars

C3_Witness ==
    /\ last.cls = "FROSTOL" /\ last.op = "calc_rates" /\ last.out = "ok"
    /\ day = 2
    /\ kiosk["RF_FROST"].isset /\ kiosk["RF_FROST"].value = Scale
    /\ fr.rates.RH > 0
    /\ fr.states.IDFST = 1

\* C4: a step that emits an event (CERES_WinterKill.calc_rates on frost kill)
\* mutates no state variable and runs no handler; a handler runs only in the
\* step that follows the last integrate call of the day, when calc_rates has
\* completed on every component and the rates of the day are spent; that step
\* invokes the handler once for each queued event, each emitted on that day,
\* and empties the queue.
C4_SignalAfterCycle ==
    /\ [][Len(queue') > Len(queue) =>
            /\ last'.op = "calc_rates"
            /\ CompStates' = CompStates
            /\ handled' = handled
            /\ cropdone' = cropdone]_vars
    /\ [][(handled' # handled \/ cropdone' # cropdone \/ Len(queue') < Len(queue)) =>
            /\ phase = "signals"
            /\ ran = 1..Len(plan)
            /\ wk.fresh = {} /\ ~soil.wb.ready /\ ~soil.npk.ready
            /\ \A n \in 1..Len(queue) : queue[n].day = day
            /\ handled' = handled \o [n \in 1..Len(queue) |->
                                         Handling(queue[n], day, "signals")]
            /\ queue' = <<>>]_vars
    /\ [](\A n, m \in 1..Len(handled) :
            /\ handled[n].phase = "signals"
            /\ handled[n].day = handled[n].event.day
            /\ handled[n].event = handled[m].event => n = m)

C4_Witness ==
    /\ plan = <<"CERES_WinterKill", "SoilLP">>
    /\ Len(handled) = 1
    /\ handled[1].event.signal = "crop_finish" /\ handled[1].day = 1
    /\ cropdone
    /\ soil.wb.state = 1 /\ soil.npk.state = 1
    /\ wk.states.HARDINDEX = 0
    /\ day = 2

\* C5: after a failed step of the day's cycle the kiosk shows the published
\* states of the last completed day: the two children of a wrapper are never
\* seen one integrated for the day and the other not.
C5_PartialDayDiscarded ==
    (phase = "aborted" /\ soil.inst # 0) =>
        /\ kiosk["SM"].value = kiosk["NAVAIL"].value
        /\ kiosk["SM"].value = day - 1

\* The wrapper's integrate call ended with the error of its NPK child, and the
\* kiosk holds the water balance of the day beside the NPK balance of the
\* day before.
C5_Witness ==
    /\ phase = "aborted"
    /\ last.cls = "SoilPP" /\ last.op = "integrate"
    /\ last.out = "UnknownVariableError"
    /\ Len(trace) = 2
    /\ day = 2
    /\ kiosk["SM"].value = 2 /\ kiosk["NAVAIL"].value = 1

\* C6: a published name keeps its owner; an initialize call that finds the
\* name of its rates container (RF_FROST, HIKILLFACTOR) or of a child's state
\* (SM, NAVAIL) unclaimed becomes its owner, and one that finds it claimed by
\* another component ends with DuplicatePublisherError and leaves the kiosk
\* and the components as they were.
C6_PublishUnique ==
    /\ [][\A n \in Names :
            KPublished(kiosk, n) => kiosk'[n].owner = kiosk[n].owner]_vars
    /\ [][last'.op = "initialize" =>
            LET n == CASE last'.cls = "FROSTOL" -> "RF_FROST"
                       [] last'.cls = "CERES_WinterKill" -> "HIKILLFACTOR"
                       [] OTHER -> "SM"
                o == IF last'.cls \in Wrappers THEN ChildId(last'.inst, 1)
                     ELSE last'.inst
            IN  IF ~KPublished(kiosk, n)
                THEN /\ last'.out # "DuplicatePublisherError"
                     /\ kiosk'[n].owner = o
                ELSE /\ last'.out = "DuplicatePublisherError"
                     /\ kiosk' = kiosk
                     /\ fr' = fr /\ wk' = wk /\ soil' = soil]_vars

C6_Witness ==
    /\ plan = <<"FROSTOL", "FROSTOL">>
    /\ last.cls = "FROSTOL" /\ last.op = "initialize" /\ last.inst = 2
    /\ last.out = "DuplicatePublisherError"
    /\ kiosk["RF_FROST"].owner = 1
    /\ fr.inst = 1

\* C7: a FROSTOL.calc_rates call that reads a name nobody published
\* (ISVERNALISED, or SNOWDEPTH when ISNOWSRC is not 0) ends with
\* UnknownVariableError.
C7_UnknownVariableSurfaced ==
    (/\ last.cls = "FROSTOL" /\ last.op = "calc_rates"
     /\ \/ ~KPublished(kiosk, "ISVERNALISED")
        \/ fr.params.ISNOWSRC # 0 /\ ~KPublished(kiosk, "SNOWDEPTH"))
    => last.out = "UnknownVariableError"

\* ISVERNALISED was never published, the snow depth comes from the driving
\* variables, and calc_rates ended with UnboundLocalError.
C7_Witness ==
    /\ last.cls = "FROSTOL" /\ last.op = "calc_rates"
    /\ ~KPublished(kiosk, "ISVERNALISED")
    /\ fr.params.ISNOWSRC = 0
    /\ last.out = "UnboundLocalError"
    /\ phase = "aborted"

\* The kill factor of the last FROSTOL.calc_rates call before the limits.
C8_Raw == Logistic(fr.params, fr.states, last.drv.TMIN_CROWN)

C8_Called == last.cls = "FROSTOL" /\ last.op = "calc_rates" /\ last.out = "ok"

\* C8 as stated: the limits include the thresholds, a kill factor of exactly
\* 0.05 gives RF_FROST = 0 and one of exactly 0.95 gives RF_FROST = 1.
C8_SnapInclusive ==
    C8_Called =>
        fr.rates.RF_FROST = IF C8_Raw <= 50 THEN 0
                            ELSE IF C8_Raw >= 950 THEN Scale
                            ELSE C8_Raw

\* C8: the limits exclude the thresholds: a kill factor below 0.05 gives
\* RF_FROST = 0, one above 0.95 gives RF_FROST = 1, and every value from 0.05
\* to 0.95, both included, is stored in RF_FROST (and in the kiosk) as it is.
C8_SnapExclusive ==
    C8_Called =>
        /\ fr.rates.RF_FROST = IF C8_Raw < 50 THEN 0
                               ELSE IF C8_Raw > 950 THEN Scale
                               ELSE C8_Raw
        /\ kiosk["RF_FROST"].value = fr.rates.RF_FROST

C8_Witness ==
    /\ C8_Called
    /\ C8_Raw = 50
    /\ fr.rates.RF_FROST = 50
    /\ fr.rates.IDFS = 1

\* C9: after a FROSTOL.initialize call that returned, LT50T = LT50I =
\* -0.6 + 0.142 * LT50C and IDFST = 0; for LT50C = -20 both are -3.44.
C9_InitialStates ==
    (last.cls = "FROSTOL" /\ last.op = "initialize" /\ last.out = "ok") =>
        /\ fr.states.LT50I = (142 * fr.params.LT50C) \div Scale - 600
        /\ fr.states.LT50T = fr.states.LT50I
        /\ fr.states.IDFST = 0
        /\ fr.params.LT50C = (0 - 20) * Scale => fr.states.LT50T = 0 - 3440

C9_Witness ==
    /\ last.cls = "FROSTOL" /\ last.op = "initialize" /\ last.out = "ok"
    /\ fr.params.LT50C = (0 - 20) * Scale
    /\ fr.states.LT50T = 0 - 3440 /\ fr.states.LT50I = 0 - 3440
    /\ fr.states.IDFST = 0

\* The day C10 is about: FROSTOL.calc_rates returned, the crop is not
\* vernalised, TEMP_CROWN is below 10 and LT50T is above LT50C.
C10_Day ==
    /\ last.cls = "FROSTOL" /\ last.op = "calc_rates" /\ last.out = "ok"
    /\ kiosk["ISVERNALISED"].value = 0
    /\ last.drv.TEMP_CROWN < 10 * Scale
    /\ fr.states.LT50T > fr.params.LT50C

\* The sum of the three dehardening and stress rates.
C10_Loss == fr.rates.RDH_TEMP + fr.rates.RDH_RESP + fr.rates.RDH_TSTR

\* C10 as stated, for a positive FROSTOL_H: on such a day RH is not zero, and
\* the integrate call that follows applies the stored rates and, from the
\* initial state, lowers LT50T.
C10_HardeningLowers ==
    /\ []((C10_Day /\ fr.params.FROSTOL_H > 0) => fr.rates.RH # 0)
    /\ [][(C10_Day /\ fr.params.FROSTOL_H > 0
             /\ last'.op = "integrate" /\ last'.out = "ok") =>
            /\ fr'.states.LT50T =
                 limit(fr.params.LT50C, fr.states.LT50I,
                       fr.states.LT50T - fr.rates.RH + C10_Loss)
            /\ fr.states.LT50T = fr.states.LT50I =>
                 fr'.states.LT50T < fr.states.LT50T]_vars

\* C10: on such a day RH = FROSTOL_H * (10 - max(0, TEMP_CROWN)) * (LT50T -
\* LT50C), which is not zero when FROSTOL_H is not zero; the integrate call
\* that follows applies the rates that calc_rates stored, clipped to [LT50C,
\* LT50I]; from the initial state LT50T goes down when RH exceeds the sum of
\* RDH_TEMP, RDH_RESP and RDH_TSTR, and stays at LT50I when it does not.
C10_HardeningApplied ==
    /\ [](C10_Day =>
            LET xTC == IF last.drv.TEMP_CROWN < 0 THEN 0 ELSE last.drv.TEMP_CROWN
                RH  == CoefMul(fr.params.FROSTOL_H,
                               Mul(10 * Scale - xTC,
                                   fr.states.LT50T - fr.params.LT50C))
            IN  /\ fr.rates.RH = RH
                /\ fr.params.FROSTOL_H # 0 => fr.rates.RH # 0)
    /\ [][(C10_Day /\ last'.op = "integrate" /\ last'.out = "ok") =>
            /\ fr'.states.LT50T =
                 limit(fr.params.LT50C, fr.states.LT50I,
                       fr.states.LT50T - fr.rates.RH + C10_Loss)
            /\ fr'.states.LT50I = fr.states.LT50I
            /\ fr.states.LT50T = fr.states.LT50I =>
                 (fr'.states.LT50T < fr.states.LT50T <=> fr.rates.RH > C10_Loss)]_vars

C10_Witness ==
    /\ last.cls = "FROSTOL" /\ last.op = "integrate" /\ last.out = "ok"
    /\ day = 1
    /\ kiosk["ISVERNALISED"].value = 0
    /\ fr.params.LT50C = (0 - 20) * Scale
    /\ fr.rates.RH = 769
    /\ fr.states.LT50I = 0 - 3440
    /\ fr.states.LT50T = 0 - 4209

\* C11: a FROSTOL.initialize call that got as far as the check on IDSL ends
\* with ParameterError exactly when IDSL is below 2; after that error the
\* run is over: no calc_rates or integrate call is made on the component, its
\* rates keep their construction defaults and its states their initial values.
C11_ParameterError ==
    /\ [][(last'.cls = "FROSTOL" /\ last'.op = "initialize"
             /\ last'.out # "DuplicatePublisherError") =>
            (last'.out = "ParameterError" <=> fr'.params.IDSL < 2)]_vars
    /\ [][(last'.cls = "FROSTOL" /\ last'.op \in {"calc_rates", "integrate"}) =>
            fr.params.IDSL >= 2]_vars
    /\ []((fr.inst # 0 /\ fr.params.IDSL < 2) =>
            /\ phase = "aborted"
            /\ last.op = "initialize" /\ last.out = "ParameterError"
            /\ fr.rates = FrRateDefault
            /\ fr.states.LT50T = fr.states.LT50I /\ fr.states.IDFST = 0)

C11_Witness ==
    /\ last.cls = "FROSTOL" /\ last.op = "initialize"
    /\ last.out = "ParameterError"
    /\ fr.params.IDSL = 1
    /\ phase = "aborted"
    /\ fr.rates.RH = Default

\* C12 as stated: in every state of a FROSTOL component LT50C <= LT50T <=
\* LT50I, and LT50I does not change after initialize.
C12_Bounds ==
    /\ [](fr.inst # 0 =>
            /\ fr.params.LT50C <= fr.states.LT50T
            /\ fr.states.LT50T <= fr.states.LT50I)
    /\ [][fr.inst # 0 => fr'.states.LT50I = fr.states.LT50I]_vars

\* LT50C = -0.5: initialize has set LT50T = LT50I = -0.671, below LT50C.
C12_Witness ==
    /\ last.cls = "FROSTOL" /\ last.op = "initialize" /\ last.out = "ok"
    /\ fr.params.LT50C = 0 - 500
    /\ fr.states.LT50I = 0 - 671
    /\ fr.states.LT50T < fr.params.LT50C

\* Frost stress of the day, from the day's RF_FROST.
C13_Frost == IF fr.rates.RF_FROST > 0 THEN 1 ELSE 0

\* C13: the IDFS that calc_rates stores is 1 when the day's RF_FROST is above
\* 0 and 0 otherwise; an integrate call that returns adds to IDFST 1 for a day
\* with RF_FROST above 0 and nothing for another day, and no other step
\* changes IDFST, which starts at 0: IDFST is the number of completed days
\* with RF_FROST above 0, it never goes down and it grows by at most 1 a day.
C13_FrostDays ==
    /\ [](fr.fresh # {} => fr.rates.IDFS = C13_Frost)
    /\ [][fr.inst # 0 =>
            fr'.states.IDFST =
                IF last'.cls = "FROSTOL" /\ last'.op = "integrate"
                   /\ last'.out = "ok"
                THEN fr.states.IDFST + C13_Frost
                ELSE fr.states.IDFST]_vars
    /\ [](fr.inst # 0 =>
            /\ fr.states.IDFST >= 0
            /\ fr.states.IDFST <= day)

\* Two completed days, the first with frost stress and the second without.
C13_Witness ==
    /\ last.cls = "FROSTOL" /\ last.op = "integrate" /\ last.out = "ok"
    /\ day = 2
    /\ fr.rates.RF_FROST = 0 /\ fr.rates.IDFS = 0
    /\ fr.states.IDFST = 1

\* C14: when a FROSTOL.calc_rates call has returned, a read of RF_FROST from
\* the kiosk succeeds and gives the RF_FROST that the call stored in the
\* rates, which is the day's kill factor after the limits and lies between 0
\* and 1; the kiosk and the rate agree in every later state too.
C14_PublishedRate ==
    /\ C8_Called =>
         /\ KGet(kiosk, "RF_FROST") = "ok"
         /\ kiosk["RF_FROST"].owner = fr.inst
         /\ fr.rates.RF_FROST \in {0, Scale, C8_Raw}
         /\ fr.rates.RF_FROST >= 0 /\ fr.rates.RF_FROST <= Scale
    /\ kiosk["RF_FROST"].isset =>
         kiosk["RF_FROST"].value = fr.rates.RF_FROST

\* The second day's value has replaced the first day's in the kiosk.
C14_Witness ==
    /\ C8_Called
    /\ day = 2
    /\ fr.states.IDFST = 0
    /\ kiosk["RF_FROST"].value = 950
    /\ fr.rates.RF_FROST = 950

\* C15: when a calc_rates call of FROSTOL or of CERES_WinterKill has
\* returned, every declared rate of the component was assigned during the
\* call and none holds its construction default.
C15_RatesRecomputed ==
    (last.op = "calc_rates" /\ last.out = "ok") =>
        /\ last.cls = "FROSTOL" =>
             /\ fr.fresh = FrRateNames
             /\ \A n \in FrRateNames : fr.rates[n] # FrRateDefault[n]
        /\ last.cls = "CERES_WinterKill" =>
             /\ wk.fresh = WkRateNames
             /\ \A n \in WkRateNames : wk.rates[n] # WkRateDefault[n]

\* A CERES_WinterKill.calc_rates call has returned: the kill factor went to
\* an attribute KILLFACTOR, and the declared and published HIKILLFACTOR was
\* not assigned and holds its default.
C15_Witness ==
    /\ last.cls = "CERES_WinterKill" /\ last.op = "calc_rates"
    /\ last.out = "ok"
    /\ wk.fresh = {"HARDINDEX_INCR", "HARDINDEX_DECR"}
    /\ <<"KILLFACTOR", 0>> \in wk.extra
    /\ wk.rates["HIKILLFACTOR"] = Default
    /\ ~kiosk["HIKILLFACTOR"].isset

\* C16: a CERES_WinterKill.calc_rates call on a day with TMIN_CROWN below
\* HIKILLTEMP (in a run where the snow depth is published) returns without
\* error, has set the kill factor to 1 and has emitted crop_finish once, with
\* finish = "frost kill"; a call on another day emits nothing.
C16_FrostKillCompletes ==
    [][(last'.cls = "CERES_WinterKill" /\ last'.op = "calc_rates"
          /\ KPublished(kiosk, "SNOWDEPTH")) =>
         IF last'.drv.TMIN_CROWN < wk.states.HIKILLTEMP
         THEN /\ last'.out = "ok"
              /\ \/ wk'.rates["HIKILLFACTOR"] = Scale
                 \/ <<"KILLFACTOR", Scale>> \in wk'.extra
              /\ Len(queue') = Len(queue) + 1
              /\ queue'[Len(queue')].signal = "crop_finish"
              /\ queue'[Len(queue')].finish = "frost kill"
         ELSE queue' = queue]_vars

\* A day with TMIN_CROWN below HIKILLTEMP and TEMP_CROWN = 3 in hardening
\* stage 1, with a rates container that takes any name: calc_rates has ended
\* with AttributeError and no signal was sent.
C16_Witness ==
    /\ last.cls = "CERES_WinterKill" /\ last.op = "calc_rates"
    /\ schema = "lax"
    /\ KPublished(kiosk, "SNOWDEPTH")
    /\ last.drv.TMIN_CROWN < wk.states.HIKILLTEMP
    /\ last.drv.TEMP_CROWN = 3 * Scale
    /\ wk.states.HARDINDEX < Scale
    /\ last.out = "AttributeError"
    /\ queue = <<>>
    /\ phase = "aborted"

\* C17: an integrate call of FROSTOL or of CERES_WinterKill leaves every rate
\* variable of the two components as calc_rates stored it, leaves the kiosk
\* entries of RF_FROST and HIKILLFACTOR as they were, and is made without
\* driving variables.
C17_IntegrateFrame ==
    [][(last'.op = "integrate" /\ last'.cls \in Crops) =>
         /\ fr'.rates = fr.rates
         /\ wk'.rates = wk.rates /\ wk'.extra = wk.extra
         /\ \A n \in PublishedRates : kiosk'[n] = kiosk[n]
         /\ last'.drv = NoDrv]_vars

C17_Witness ==
    /\ last.cls = "CERES_WinterKill" /\ last.op = "integrate"
    /\ last.out = "ok"
    /\ day = 2
    /\ wk.rates["HARDINDEX_INCR"] = 0 /\ wk.rates["HARDINDEX_DECR"] = 0
    /\ wk.states.HIKILLTEMP = wk.params["CWWK_KILLTEMP"]

\* C18: a CrownTemperature call that returns gives an average crown
\* temperature equal to (maximum crown temperature + minimum crown
\* temperature) / 2; a snow depth of 15 cm or more gives the crown
\* temperatures of 15 cm (the factor is CROWNTMPA); the call leaves the kiosk
\* as it was.
C18_CrownAverage ==
    [][(ct' # ct /\ ct'.inst = ct.inst /\ ct'.out = "ok") =>
         LET SD == IF ct'.params.ISNOWSRC = 0 THEN ct'.drv.SNOWDEPTH
                   ELSE kiosk["SNOWDEPTH"].value
         IN  /\ ct'.ret.TEMP_crown =
                  (ct'.ret.TMAX_crown + ct'.ret.TMIN_crown) \div 2
             /\ (SD >= 15 * Scale /\ ct'.drv.TMIN < 0) =>
                  /\ ct'.ret.TMIN_crown = Mul(ct'.drv.TMIN, ct'.params.CROWNTMPA)
                  /\ ct'.ret.TMAX_crown = Mul(ct'.drv.TMAX, ct'.params.CROWNTMPA)
             /\ kiosk' = kiosk]_vars

\* A day with TMIN = 2, TMAX = 6 and a measured mean of 3: the call has
\* returned 3 as the average crown temperature, not (6 + 2) / 2.
C18_Witness ==
    /\ ct.out = "ok"
    /\ ct.drv.TMIN = 2 * Scale /\ ct.drv.TMAX = 6 * Scale
    /\ ct.drv.TEMP = 3 * Scale
    /\ ct.ret.TMIN_crown = 2 * Scale /\ ct.ret.TMAX_crown = 6 * Scale
    /\ ct.ret.TEMP_crown = 3 * Scale

\* C19: in every state of a CERES_WinterKill component HIKILLTEMP =
\* (HARDINDEX + 1) * CWWK_KILLTEMP, and an integrate call that returns
\* leaves HARDINDEX at its value before the call plus the day's
\* HARDINDEX_INCR plus the day's HARDINDEX_DECR.
C19_KillTemperature ==
    /\ [](wk.inst # 0 =>
            wk.states.HIKILLTEMP =
                ((wk.states.HARDINDEX + Scale) * wk.params["CWWK_KILLTEMP"])
                    \div Scale)
    /\ [][(last'.cls = "CERES_WinterKill" /\ last'.op = "integrate"
             /\ last'.out = "ok") =>
            wk'.states.HARDINDEX =
                wk.states.HARDINDEX + wk.rates["HARDINDEX_INCR"]
                                    + wk.rates["HARDINDEX_DECR"]]_vars

C19_Witness ==
    /\ last.cls = "CERES_WinterKill" /\ last.op = "integrate"
    /\ last.out = "ok"
    /\ day = 1
    /\ "HARDINDEX_INCR" \notin wk.fresh
    /\ wk.states.HARDINDEX = 0
    /\ wk.states.HIKILLTEMP = (0 - 6) * Scale

====
